---- MODULE Spec2Model ----
(***************************************************************************)
(* Identity resolution and guest-provisioning fallback chain of the auth   *)
(* helper (src/authHelper-old-complex.js).                                 *)
(*                                                                         *)
(* Every asynchronous helper is modelled from one suspension point (await) *)
(* to the next: an action is the code that runs between the arrival of the *)
(* answer to the outstanding remote request and the issue of the next      *)
(* request (or the return).  JavaScript values are strings: "null" and     *)
(* "undefined" stand for null and undefined, user ids are "U1", anonymous  *)
(* profile ids are "A1", "A2", ...; objects are functions from field names *)
(* to such strings.                                                        *)
(***************************************************************************)
EXTENDS Integers, Sequences, FiniteSets, TLC

VARIABLES
    env,                \* which globals exist: supabaseClient, errorHandler, enhancedDB members, localStorage
    session,            \* the user the remote identity service holds a session for, or NULL
    authTimeoutLogged,  \* window.authTimeoutLogged
    cache,              \* localStorage['anon_profile_id'], NULL when absent
    profiles,           \* ids of the rows of the remote table anonymous_profiles
    nextId,             \* number of rows the remote table has created so far
    call,               \* per caller: the helper call in flight or last finished
    ncalls,             \* number of helper calls started
    diagCount,          \* errorHandler.logError calls so far, per code
    notFound,           \* history: the ids a verification was answered "not found" for
    prev,               \* history: the call made before, when the caller calls again
    logger,             \* the logging layer: which script is loaded, its level, what it has output
    fetcher,            \* the security middleware around fetch: its config, the user, the last request
    registration,       \* the coach-code registration form and the invitation code's usage
    pager,              \* SupabaseQueryHelper: the last applyPagination call and the window it put on the query
    invitation,         \* the email-invitation fix: login listeners, user_profiles rows, calls in flight
    modal               \* SimpleAuthModal: callbacks, the form, the sign-in in flight

\* the state of the auth helper
authVars == <<env, session, authTimeoutLogged, cache, profiles, nextId, call,
              ncalls, diagCount, notFound, prev>>

\* the state of the other scripts
others == <<logger, fetcher, registration, pager, invitation, modal>>

vars == <<authVars, others>>

---------------------------------------------------------------------------
(* Bounds *)

MaxCalls == 2       \* helper calls per session
MaxIds == 2         \* rows the remote table can create
MaxLogins == 3      \* login events dispatched on one page
MaxRegistrations == 2   \* callbacks registered with the sign-in modal
MaxInFlight == 2        \* sign-in requests of the modal awaiting their answer

---------------------------------------------------------------------------
(* Values *)

NULL == "null"
UNDEF == "undefined"
NoUser == "no-user"
Users == {"U1"}
Procs == {"p1", "p2"}
Main == "p1"

IdOf(n) == "A" \o ToString(n)
Ids == {IdOf(n) : n \in 1..MaxIds}

NoObj == [k \in {} |-> NULL]

\* a script that is not on the page
NotLoaded == [loaded |-> FALSE]

\* data objects handed to createInsertPayload: without and with identity
\* fields of their own
DataInputs ==
    { [foo |-> "1"],
      [foo |-> "1", user_id |-> "U9", anon_profile_id |-> "A9"] }

Truthy(v) == v \notin {NULL, UNDEF}

\* the tracked errorHandler.logError codes that are counted over the session
CountedCodes == {"AUTH_TIMEOUT", "AUTH_GET_USER"}

---------------------------------------------------------------------------
(* Results of a call *)

Pending == [kind |-> "pending", val |-> UNDEF, obj |-> NoObj]
Return(v) == [kind |-> "return", val |-> v, obj |-> NoObj]
ReturnObj(o) == [kind |-> "return", val |-> "object", obj |-> o]
Throw(msg) == [kind |-> "throw", val |-> msg, obj |-> NoObj]

\* what is remembered of the call made before
NoPrev ==
    [op |-> "none", val |-> UNDEF, cacheAtStart |-> NULL, nreq |-> 0,
     failed |-> FALSE, lastAns |-> "none"]

\* op/data/flag: the helper called and its arguments; pc: the outstanding
\* request; ret: what the helper returned or threw; anon: the local variable
\* anonProfileId.  The other fields record what the call did: the outcome of
\* the getUser race, how its loser settled later, the flag as the race
\* found it, what getCurrentUserId
\* returned, the logError codes the call emitted, the create requests that
\* reached a transport, in order, the last answer received, the rows its
\* requests created, the cache as the call first read it, what the inner
\* getOrCreateAnonymousProfile returned, whether any request failed.
IdleCall ==
    [op |-> "none", data |-> NoObj, flag |-> FALSE, pc |-> "idle",
     ret |-> Pending, anon |-> NULL, race |-> "none", flagBefore |-> FALSE,
     uid |-> "none", emitted |-> {}, attempts |-> <<>>, created |-> {},
     cacheAtStart |-> NULL, gocRet |-> "none", failed |-> FALSE,
     lastAns |-> "none", late |-> "none"]

Summary(c) ==
    [op |-> c.op, val |-> c.ret.val, cacheAtStart |-> c.cacheAtStart,
     nreq |-> Len(c.attempts), failed |-> c.failed, lastAns |-> c.lastAns]

Get(o, k) == IF k \in DOMAIN o THEN o[k] ELSE UNDEF

\* mutant: { user_id: u, anon_profile_id: a, ...data }
MergeUnderData(data, u, a) ==
    [k \in (DOMAIN data) \cup {"user_id", "anon_profile_id"} |->
        IF k \in DOMAIN data THEN data[k]
        ELSE IF k = "user_id" THEN u
        ELSE a]

\* { ...data, user_id: u, anon_profile_id: a }
Merge(data, u, a) ==
    [k \in (DOMAIN data) \cup {"user_id", "anon_profile_id"} |->
        IF k = "user_id" THEN u
        ELSE IF k = "anon_profile_id" THEN a
        ELSE data[k]]

Emit(c, code) ==
    IF env.errorHandler THEN [c EXCEPT !.emitted = @ \cup {code}] ELSE c

Finish(c, r) == [c EXCEPT !.pc = "done", !.ret = r]

---------------------------------------------------------------------------
(* getOrCreateAnonymousProfile: control flow between requests *)

Sentinel == [user_id |-> NoUser, anon_profile_id |-> NoUser]

\* mutant: the answer of getOrCreateAnonymousProfile is not tested
FilterForAnonUnchecked(v) == [anon_profile_id |-> v]

\* getUserQueryFilter, from the answer of getOrCreateAnonymousProfile on
FilterForAnon(v) ==
    IF Truthy(v) THEN [anon_profile_id |-> v] ELSE Sentinel

\* getOrCreateAnonymousProfile returns v to its caller
GOCReturn(c, v) ==
    LET d == [c EXCEPT !.gocRet = v]
    IN  IF c.op = "getUserQueryFilter"
        THEN Finish(d, ReturnObj(FilterForAnon(v)))
        ELSE Finish(d, Return(v))

IssueCreate(c, stage) ==
    [c EXCEPT !.pc = stage, !.attempts = Append(@, stage)]

\* the outstanding request is answered
Answered(c, ans) ==
    [c EXCEPT !.lastAns = ans, !.failed = @ \/ ans \notin {"found", "id"}]

\* a structured request reaches the remote store only through the client
IssueStructured(c, stage) ==
    IF env.client THEN IssueCreate(c, stage) ELSE [c EXCEPT !.pc = stage]

\* the outer catch: log, then the REST fallback up to its first request
RestEntry(c, cacheNow) ==
    LET c1 == Emit([c EXCEPT !.failed = TRUE],
                   "AUTH_ANON_PROFILE_SUPABASE_OPERATION_FAILED")
    IN  IF ~env.storage
        THEN GOCReturn(Emit(c1, "AUTH_ANON_PROFILE_ALL_METHODS_FAILED"), NULL)
        ELSE IF Truthy(cacheNow)
        THEN [c1 EXCEPT !.pc = "rest_verify", !.anon = cacheNow]
        ELSE IssueCreate([c1 EXCEPT !.anon = cacheNow], "rest_a")

\* the direct structured create, up to its first request
DirectEntry(c, cacheNow) ==
    IF env.client
    THEN IssueCreate(c, "dir_a")
    ELSE RestEntry(Emit(c, "AUTH_ANON_PROFILE_SUPABASE_FAILED"), cacheNow)

\* creation, up to its first request
CreateEntry(c, cacheNow) ==
    IF env.enhancedOp THEN IssueStructured(c, "enh_a") ELSE DirectEntry(c, cacheNow)

\* the function from its first line to its first request
GOCEnter(c, cacheNow) ==
    LET c1 == [c EXCEPT !.cacheAtStart = cacheNow, !.anon = cacheNow]
    IN  IF ~env.storage THEN RestEntry([c1 EXCEPT !.anon = NULL], cacheNow)
        ELSE IF Truthy(cacheNow)
        THEN IF env.enhancedOp THEN [c1 EXCEPT !.pc = "verify_enh"]
             ELSE IF env.client THEN [c1 EXCEPT !.pc = "verify_dir"]
             ELSE RestEntry(c1, cacheNow)
        ELSE CreateEntry(c1, cacheNow)

---------------------------------------------------------------------------
(* getOrCreateAnonymousProfile: what each answer leads to *)

\* answers of the remote store to a request
\*   found / notfound : the row exists / the store reports no such row
\*   id               : the row was created and the answer carries its id
\*   noid             : the store reports success, the answer carries no id
\*   badjson          : the HTTP answer is ok, its body does not parse
\*   ok_empty         : the HTTP answer is ok, its body parses to null
\*   expires          : failure whose message mentions expires_at
\*   err / fail       : any other failure (service error, timeout, status)
\*   throw            : the awaited call rejects
Creates(ans) == ans \in {"id", "noid", "badjson"}

\* mutant: a "not found" answer does not evict the cached id
EvictsOnVerifyErrOnly(ans) == ans = "err"

\* lines 162-167 and 176-180: the cached id is kept only when verified
EvictsOnVerify(ans) == ans \in {"notfound", "err"}

\* lines 360-378 and 383-397: the HTTP verification evicts on 404 only
EvictsOnRestVerify(ans) == ans = "notfound"

\* lines 201 and 217: the shape tried after a failed enhanced create
EnhancedNext(stage, ans) ==
    IF stage = "enh_a" /\ ans = "expires" THEN "enh_b"
    ELSE IF stage \in {"enh_a", "enh_b"} THEN "enh_c"
    ELSE "end"

\* mutant: shape (b) follows every failure of shape (a)
DirectNextLenient(stage, ans) ==
    IF stage = "dir_a" THEN "dir_b"
    ELSE IF stage = "dir_b" THEN "dir_c"
    ELSE "end"

\* mutant: a failed direct create of shape (a) is repeated
DirectNextRepeats(stage, ans) ==
    IF stage = "dir_a" THEN "dir_a"
    ELSE IF stage = "dir_b" THEN "dir_c"
    ELSE "end"

\* lines 273 and 291: the shape tried after a failed direct create
DirectNext(stage, ans) ==
    IF stage = "dir_a" /\ ans = "expires" THEN "dir_b"
    ELSE IF stage \in {"dir_a", "dir_b"} THEN "dir_c"
    ELSE "end"

\* lines 416 and 468: the loop over profileDataOptions
RestNext(stage) ==
    IF stage = "rest_a" THEN "rest_b"
    ELSE IF stage = "rest_b" THEN "rest_c"
    ELSE "end"

\* mutant: the created id is written only to an empty cache
CacheKeptIfSet(ans, id, cacheNow) ==
    IF ans = "id" /\ cacheNow = NULL THEN id ELSE cacheNow

\* mutant: the id of the new row is written whatever the answer carried
CacheStoredUnchecked(ans, id, cacheNow) ==
    IF Creates(ans) THEN id ELSE cacheNow

\* mutant: the created id is not written to the cache
CacheNeverStored(ans, id, cacheNow) == cacheNow

\* setStoredId / setItem after a create that answered with an id
\* (lines 232, 320, 440, 484)
CacheAfterCreate(ans, id, cacheNow) == IF ans = "id" THEN id ELSE cacheNow

\* the catch of the REST fallback
AllMethodsFailed(c) ==
    GOCReturn(Emit(c, "AUTH_ANON_PROFILE_ALL_METHODS_FAILED"), NULL)

\* the answer to the verification of the cached id, structured transport
AfterVerify(c, ans, cacheNow) ==
    IF ans = "throw" THEN RestEntry(c, cacheNow)
    ELSE IF EvictsOnVerify(ans) THEN CreateEntry(c, cacheNow)
    ELSE GOCReturn(c, c.anon)

\* the answer to an enhanced structured create
AfterEnhancedCreate(c, ans, id, cacheNow) ==
    IF ans = "id" THEN GOCReturn([c EXCEPT !.anon = id], id)
    ELSE IF ans = "throw" THEN RestEntry(c, cacheNow)
    ELSE IF ans = "noid" \/ EnhancedNext(c.pc, ans) = "end"
    THEN DirectEntry(Emit(c, "AUTH_ANON_PROFILE_CREATE_FAILED"), cacheNow)
    ELSE IssueStructured(c, EnhancedNext(c.pc, ans))

\* the answer to a direct structured create
AfterDirectCreate(c, ans, id, cacheNow) ==
    IF ans = "id" THEN GOCReturn([c EXCEPT !.anon = id], id)
    ELSE IF ans = "noid" THEN GOCReturn(c, UNDEF)
    ELSE IF DirectNext(c.pc, ans) = "end"
    THEN RestEntry(Emit(c, "AUTH_ANON_PROFILE_SUPABASE_FAILED"), cacheNow)
    ELSE IssueCreate(c, DirectNext(c.pc, ans))

\* the answer to the HTTP verification of the cached id
AfterRestVerify(c, ans) ==
    IF ans = "found" THEN GOCReturn(c, c.anon)
    ELSE IF ans = "throw" \/ (ans = "badjson" /\ ~env.enhancedNet)
    THEN AllMethodsFailed(c)
    ELSE IssueCreate(c, "rest_a")

\* the answer to an HTTP create
AfterRestCreate(c, ans, id) ==
    IF ans = "id" THEN GOCReturn([c EXCEPT !.anon = id], id)
    ELSE IF ans = "noid" \/ (ans = "badjson" /\ env.enhancedNet)
    THEN IF RestNext(c.pc) = "end" THEN GOCReturn(c, UNDEF)
         ELSE IssueCreate(c, RestNext(c.pc))
    ELSE IF RestNext(c.pc) = "end" THEN AllMethodsFailed(c)
         ELSE IssueCreate(c, RestNext(c.pc))

---------------------------------------------------------------------------
(* getCurrentUserId and the helpers built on it *)

\* mutant: the once-per-session gate is dropped
ShouldLogAlways(flag) == env.errorHandler

\* lines 40 and 55: "only once per session"
ShouldLogOnce(flag) == env.errorHandler /\ ~flag

\* outcomes of Promise.race([authPromise, timeoutPromise])
\*   ok             : getUser answered { data, error: null }
\*   error          : getUser answered with a service error
\*   reject         : getUser rejected, message without 'timeout'
\*   reject_timeout : getUser rejected, message containing 'timeout'
\*   timer          : the 5000 ms timer fired first
GetUserAnswers == {"ok", "error", "reject", "reject_timeout"}

IsTimeout(outcome) == outcome \in {"timer", "reject_timeout"}

\* the logError code the outcome of the race leads to, "none" when silent
DiagOf(outcome, flag) ==
    IF outcome = "error"
    THEN IF ShouldLogOnce(flag) THEN "AUTH_GET_USER" ELSE "none"
    ELSE IF IsTimeout(outcome)
    THEN IF ShouldLogOnce(flag) THEN "AUTH_TIMEOUT" ELSE "none"
    ELSE IF outcome = "reject"
    THEN IF env.errorHandler THEN "AUTH_GET_USER_ID" ELSE "none"
    ELSE "none"

\* mutant: reporting does not set window.authTimeoutLogged
FlagNeverSet(outcome, flag) == flag

\* lines 42 and 57
FlagAfter(outcome, flag) ==
    flag \/ (DiagOf(outcome, flag) \in {"AUTH_GET_USER", "AUTH_TIMEOUT"})

\* mutant: the user of the session is returned whatever the race gave
UserIdOfAnyOutcome(outcome, sess) == sess

\* what getCurrentUserId returns: data?.user?.id ?? null, null on any failure
UserIdOf(outcome, sess) == IF outcome = "ok" THEN sess ELSE NULL

\* mutant: the legacy design, an unauthenticated caller is given a guest id
getCurrentUserIdentifierLegacy(uid) ==
    IF Truthy(uid)
    THEN [user_id |-> uid, is_authenticated |-> "true"]
    ELSE [user_id |-> NULL, anon_profile_id |-> "A1", is_authenticated |-> "false"]

getCurrentUserIdentifier(uid) ==
    IF Truthy(uid)
    THEN [user_id |-> uid, is_authenticated |-> "true"]
    ELSE [user_id |-> NULL, is_authenticated |-> "false", requires_login |-> "true"]

addUserIdentifierToData(data, uid) ==
    LET identifier == getCurrentUserIdentifier(uid)
    IN  Merge(data, Get(identifier, "user_id"), Get(identifier, "anon_profile_id"))

\* mutant: requireAuthentication lets an unauthenticated caller through
requireAuthenticationLax(uid) == Return(uid)

requireAuthentication(uid) ==
    IF Truthy(uid) THEN Return(uid) ELSE Throw("User not authenticated")

createInsertPayload(data, requireAuth, uid) ==
    IF requireAuth
    THEN IF requireAuthentication(uid).kind = "throw"
         THEN requireAuthentication(uid)
         ELSE ReturnObj(Merge(data, requireAuthentication(uid).val, NULL))
    ELSE ReturnObj(addUserIdentifierToData(data, uid))

isAuthenticated(uid) == IF uid # NULL THEN "true" ELSE "false"

requireUserIdentifier(uid) ==
    LET identifier == getCurrentUserIdentifier(uid)
    IN  IF ~Truthy(Get(identifier, "user_id"))
           /\ ~Truthy(Get(identifier, "anon_profile_id"))
        THEN Throw("No valid user identifier available")
        ELSE ReturnObj(identifier)

\* the snapshot of the catch block of getAuthState
SafeDefaults ==
    [isAuthenticated |-> "false", isAnonymous |-> "true", userId |-> NULL,
     anonProfileId |-> NULL]

\* mutant: the cache is read whether or not the caller is authenticated
getAuthStateAlwaysReads(uid, cacheNow) ==
    [isAuthenticated |-> isAuthenticated(uid),
     isAnonymous |-> IF uid # NULL THEN "false" ELSE "true",
     userId |-> uid, anonProfileId |-> cacheNow]

\* getAuthState from the answer of getCurrentUserId on; reading the cache
\* throws when there is no storage
getAuthState(uid, cacheNow) ==
    IF uid # NULL
    THEN [isAuthenticated |-> "true", isAnonymous |-> "false", userId |-> uid,
          anonProfileId |-> NULL]
    ELSE IF env.storage
    THEN [isAuthenticated |-> "false", isAnonymous |-> "true", userId |-> uid,
          anonProfileId |-> cacheNow]
    ELSE SafeDefaults

\* the caller of getCurrentUserId resumes with its answer; a caller that goes
\* on to getOrCreateAnonymousProfile keeps userId and nothing else of the
\* finished getCurrentUserId (race, flagBefore and emitted then describe the
\* helper that is running)
AfterUserId(c, uid, cacheNow) ==
    LET d == [c EXCEPT !.uid = uid]
        e == [d EXCEPT !.race = "returned", !.flagBefore = FALSE, !.emitted = {}]
    IN  IF c.op = "getCurrentUserId" THEN Finish(d, Return(uid))
        ELSE IF c.op = "createInsertPayload"
        THEN Finish(d, createInsertPayload(c.data, c.flag, uid))
        ELSE IF c.op = "getCurrentUserIdentifier"
        THEN Finish(d, ReturnObj(getCurrentUserIdentifier(uid)))
        ELSE IF c.op = "isAuthenticated"
        THEN Finish(d, Return(isAuthenticated(uid)))
        ELSE IF c.op = "requireUserIdentifier"
        THEN Finish(d, requireUserIdentifier(uid))
        ELSE IF c.op = "getAuthState"
        THEN Finish(IF uid = NULL /\ ~env.storage
                    THEN Emit(d, "AUTH_GET_STATE") ELSE d,
                    ReturnObj(getAuthState(uid, cacheNow)))
        ELSE \* getUserQueryFilter
             IF Truthy(uid) THEN Finish(d, ReturnObj([user_id |-> uid]))
             ELSE IF c.flag THEN GOCEnter(e, cacheNow)
             ELSE Finish(d, ReturnObj(Sentinel))

\* getCurrentUserId up to the race
BeginGetUserId(c, cacheNow) ==
    IF ~env.client
    THEN AfterUserId([c EXCEPT !.race = "noclient"], NULL, cacheNow)
    ELSE [c EXCEPT !.pc = "getUser"]

---------------------------------------------------------------------------
(* Initial state *)

Envs ==
    [client : BOOLEAN, errorHandler : BOOLEAN, enhancedOp : BOOLEAN,
     enhancedNet : BOOLEAN, storage : BOOLEAN]

Init ==
    /\ env \in Envs
    /\ session \in Users \cup {NULL}
    /\ authTimeoutLogged = FALSE
    /\ cache = NULL
    /\ profiles = {}
    /\ nextId = 0
    /\ call = [p \in Procs |-> IdleCall]
    /\ ncalls = 0
    /\ diagCount = [k \in CountedCodes |-> 0]
    /\ notFound = {}
    /\ prev = NoPrev
    /\ logger = NotLoaded
    /\ fetcher = NotLoaded
    /\ registration = NotLoaded
    /\ pager = NotLoaded
    /\ invitation = NotLoaded
    /\ modal = NotLoaded

---------------------------------------------------------------------------
(* Calls of the helpers *)

Startable(p) == call[p].pc \in {"idle", "done"} /\ ncalls < MaxCalls

NewCall(op, data, flag) ==
    [IdleCall EXCEPT !.op = op, !.data = data, !.flag = flag]

StartGetCurrentUserId(p) ==
    /\ Startable(p)
    /\ call' = [call EXCEPT ![p] =
                    BeginGetUserId(NewCall("getCurrentUserId", NoObj, FALSE), cache)]
    /\ ncalls' = ncalls + 1
    /\ UNCHANGED <<others, env, session, authTimeoutLogged, cache, profiles, nextId,
                   diagCount, notFound, prev>>

StartCreateInsertPayload(p, data, requireAuth) ==
    /\ Startable(p)
    /\ call' = [call EXCEPT ![p] =
                    BeginGetUserId(NewCall("createInsertPayload", data, requireAuth), cache)]
    /\ ncalls' = ncalls + 1
    /\ UNCHANGED <<others, env, session, authTimeoutLogged, cache, profiles, nextId,
                   diagCount, notFound, prev>>

StartGetUserQueryFilter(p, allowAnonymous) ==
    /\ Startable(p)
    /\ call' = [call EXCEPT ![p] =
                    BeginGetUserId(NewCall("getUserQueryFilter", NoObj, allowAnonymous), cache)]
    /\ ncalls' = ncalls + 1
    /\ UNCHANGED <<others, env, session, authTimeoutLogged, cache, profiles, nextId,
                   diagCount, notFound, prev>>

\* the helpers that only await getCurrentUserId
IdentityHelpers ==
    {"getCurrentUserIdentifier", "isAuthenticated", "requireUserIdentifier",
     "getAuthState"}

StartIdentityHelper(p, op) ==
    /\ Startable(p)
    /\ op \in IdentityHelpers
    /\ call' = [call EXCEPT ![p] = BeginGetUserId(NewCall(op, NoObj, FALSE), cache)]
    /\ ncalls' = ncalls + 1
    /\ UNCHANGED <<others, env, session, authTimeoutLogged, cache, profiles, nextId,
                   diagCount, notFound, prev>>

StartGetOrCreateAnonymousProfile(p) ==
    /\ Startable(p)
    /\ call' = [call EXCEPT ![p] =
                    GOCEnter(NewCall("getOrCreateAnonymousProfile", NoObj, FALSE), cache)]
    /\ ncalls' = ncalls + 1
    /\ UNCHANGED <<others, env, session, authTimeoutLogged, cache, profiles, nextId,
                   diagCount, notFound, prev>>

\* Promise.race settles with `outcome`
RaceSettles(p, outcome) ==
    LET c == [call[p] EXCEPT !.race = outcome, !.flagBefore = authTimeoutLogged]
        code == DiagOf(outcome, authTimeoutLogged)
        c1 == IF code = "none" THEN c ELSE [c EXCEPT !.emitted = @ \cup {code}]
    IN  /\ call[p].pc = "getUser"
        /\ authTimeoutLogged' = FlagAfter(outcome, authTimeoutLogged)
        /\ diagCount' = IF code \notin CountedCodes THEN diagCount
                        ELSE [diagCount EXCEPT ![code] = @ + 1]
        /\ call' = [call EXCEPT ![p] = AfterUserId(c1, UserIdOf(outcome, session), cache)]
        /\ UNCHANGED <<others, env, session, cache, profiles, nextId, ncalls, notFound, prev>>

GetUserSettles(p, ans) ==
    /\ ans \in GetUserAnswers
    /\ RaceSettles(p, ans)

TimerFires(p) == RaceSettles(p, "timer")

\* the answers the structured transport can give to the verification
VerifyAnswers(c) ==
    IF ~env.client THEN {"err", "throw"}
    ELSE (IF c.anon \in profiles THEN {"found"} ELSE {"notfound"})
         \cup {"err", "throw"}

VerifyAnswered(p, ans) ==
    LET c == Answered(call[p], ans)
        evict == ans # "throw" /\ EvictsOnVerify(ans)
        cacheAfter == IF evict THEN NULL ELSE cache
    IN  /\ c.pc \in {"verify_enh", "verify_dir"}
        /\ ans \in VerifyAnswers(c)
        /\ cache' = cacheAfter
        /\ notFound' = IF ans = "notfound" THEN notFound \cup {c.anon}
                       ELSE notFound
        /\ call' = [call EXCEPT ![p] = AfterVerify(c, ans, cacheAfter)]
        /\ UNCHANGED <<others, env, session, authTimeoutLogged, profiles, nextId,
                       ncalls, diagCount, prev>>

\* the answers the remote store can give to a create request
CanCreate == nextId < MaxIds

EnhancedCreateAnswers ==
    IF ~env.client THEN {"err", "throw"}
    ELSE (IF CanCreate THEN {"id", "noid"} ELSE {}) \cup {"expires", "err", "throw"}

DirectCreateAnswers ==
    (IF CanCreate THEN {"id", "noid"} ELSE {}) \cup {"expires", "err"}

RestCreateAnswers ==
    (IF CanCreate THEN {"id", "noid", "badjson"} ELSE {}) \cup {"fail"}

\* the remote store and the cache after a create request answered `ans`
CreateEffect(p, ans, after) ==
    LET id == IdOf(nextId + 1)
        c == IF Creates(ans)
             THEN [Answered(call[p], ans) EXCEPT !.created = @ \cup {id}]
             ELSE Answered(call[p], ans)
        cacheAfter == CacheAfterCreate(ans, id, cache)
    IN  /\ profiles' = IF Creates(ans) THEN profiles \cup {id} ELSE profiles
        /\ nextId' = IF Creates(ans) THEN nextId + 1 ELSE nextId
        /\ cache' = cacheAfter
        /\ call' = [call EXCEPT ![p] =
                        IF after = "enh" THEN AfterEnhancedCreate(c, ans, id, cacheAfter)
                        ELSE IF after = "dir" THEN AfterDirectCreate(c, ans, id, cacheAfter)
                        ELSE AfterRestCreate(c, ans, id)]
        /\ UNCHANGED <<others, env, session, authTimeoutLogged, ncalls, diagCount, notFound, prev>>

EnhancedCreateAnswered(p, ans) ==
    /\ call[p].pc \in {"enh_a", "enh_b", "enh_c"}
    /\ ans \in EnhancedCreateAnswers
    /\ CreateEffect(p, ans, "enh")

DirectCreateAnswered(p, ans) ==
    /\ call[p].pc \in {"dir_a", "dir_b", "dir_c"}
    /\ ans \in DirectCreateAnswers
    /\ CreateEffect(p, ans, "dir")

RestCreateAnswered(p, ans) ==
    /\ call[p].pc \in {"rest_a", "rest_b", "rest_c"}
    /\ ans \in RestCreateAnswers
    /\ CreateEffect(p, ans, "rest")

RestVerifyAnswers(c) ==
    (IF c.anon \in profiles THEN {"found"} ELSE {"notfound"})
    \cup {"ok_empty", "badjson", "fail", "throw"}

RestVerifyAnswered(p, ans) ==
    LET c == Answered(call[p], ans)
        evict == EvictsOnRestVerify(ans)
    IN  /\ c.pc = "rest_verify"
        /\ ans \in RestVerifyAnswers(c)
        /\ cache' = IF evict THEN NULL ELSE cache
        /\ notFound' = IF ans = "notfound" THEN notFound \cup {c.anon}
                       ELSE notFound
        /\ call' = [call EXCEPT ![p] = AfterRestVerify(c, ans)]
        /\ UNCHANGED <<others, env, session, authTimeoutLogged, profiles, nextId,
                       ncalls, diagCount, prev>>

---------------------------------------------------------------------------
(* signOut *)

\* mutant: the cache is left as it is
clearAnonymousProfileSkipped(cacheNow) == cacheNow

\* removeItem inside try/catch: without storage it throws and is caught
clearAnonymousProfile(cacheNow) == IF env.storage THEN NULL ELSE cacheNow

\* answers to supabaseClient.auth.signOut()
\*   ok      : the session is ended
\*   error   : the service reports an error, the session stands
\*   timeout : no answer within 5000 ms; the request may have been served
\*   throw   : the awaited call rejects
SignOutAnswers == {"ok", "error", "timeout", "throw"}

\* mutant: the remote sign-out never ends the session
SessionKeptAfterSignOut(ans, sess) == {sess}

\* the sessions the identity service can hold after the sign-out request
SessionAfterSignOut(ans, sess) ==
    IF ans = "ok" THEN {NULL}
    ELSE IF ans = "timeout" THEN {sess, NULL}
    ELSE {sess}

\* whether the catch block of signOut runs: the enhanced wrapper reports a
\* timeout in its result, the bare Promise.race rejects
SignOutCaught(ans) == ans = "throw" \/ (ans = "timeout" /\ ~env.enhancedOp)

StartSignOut(p) ==
    LET c == [NewCall("signOut", NoObj, FALSE) EXCEPT !.cacheAtStart = cache]
    IN  /\ Startable(p)
        /\ IF env.client
           THEN /\ call' = [call EXCEPT ![p] = [c EXCEPT !.pc = "signOut"]]
                /\ cache' = cache
           ELSE /\ call' = [call EXCEPT ![p] = Finish(c, Return(UNDEF))]
                /\ cache' = clearAnonymousProfile(cache)
        /\ ncalls' = ncalls + 1
        /\ UNCHANGED <<others, env, session, authTimeoutLogged, profiles, nextId,
                       diagCount, notFound, prev>>

SignOutAnswered(p, ans, sess) ==
    LET c == [call[p] EXCEPT !.lastAns = ans]
    IN  /\ call[p].pc = "signOut"
        /\ ans \in SignOutAnswers
        /\ sess \in SessionAfterSignOut(ans, session)
        /\ session' = sess
        /\ cache' = clearAnonymousProfile(cache)
        /\ call' = [call EXCEPT ![p] =
                        Finish(IF SignOutCaught(ans)
                               THEN Emit(c, "AUTH_SIGN_OUT_ERROR") ELSE c,
                               Return(UNDEF))]
        /\ UNCHANGED <<others, env, authTimeoutLogged, profiles, nextId, ncalls,
                       diagCount, notFound, prev>>

---------------------------------------------------------------------------
(* The loser of Promise.race([authPromise, timeoutPromise]) *)

\* mutant: the abandoned promise reports like the winner does
OnLoserSettledReports(outcome, flag) ==
    flag \/ (env.errorHandler /\ outcome # "ok")

\* window.authTimeoutLogged when the loser settles: the race has settled
\* before, its continuation has run, and the code attached no handler of
\* its own to authPromise or timeoutPromise (lines 27-33)
OnLoserSettled(outcome, flag) == flag

\* the promise that lost the race settles: getUser answers after the timer
\* has won, or the timer fires after getUser has answered
LoserSettles(p, outcome) ==
    /\ call[p].late = "none"
    /\ \/ call[p].race = "timer" /\ outcome \in GetUserAnswers
       \/ call[p].race \in GetUserAnswers /\ outcome = "timer"
    /\ call' = [call EXCEPT ![p].late = outcome]
    /\ authTimeoutLogged' = OnLoserSettled(outcome, authTimeoutLogged)
    /\ UNCHANGED <<others, env, session, cache, profiles, nextId, ncalls,
                   diagCount, notFound, prev>>

---------------------------------------------------------------------------
(* upgradeAnonymousUser *)

\* upgradeAnonymousUser(email, password) up to the await of auth.signUp.
\* validation: "rejected" when enhancedDB.validateInput is there and refuses
\* the email or the password, "passed" otherwise.  Reading the cached id
\* throws without storage, calling signUp throws without a client; every
\* throw lands in the catch, which logs and returns false.
StartUpgradeAnonymousUser(p, validation) ==
    LET c == [NewCall("upgradeAnonymousUser", NoObj, FALSE)
                  EXCEPT !.cacheAtStart = cache, !.anon = cache]
    IN  /\ Startable(p)
        /\ call' = [call EXCEPT ![p] =
                        IF validation = "rejected" \/ ~env.storage \/ ~env.client
                        THEN Finish(Emit([c EXCEPT !.failed = TRUE], "AUTH_UPGRADE_ERROR"),
                                    Return("false"))
                        ELSE [c EXCEPT !.pc = "signUp"]]
        /\ ncalls' = ncalls + 1
        /\ UNCHANGED <<others, env, session, authTimeoutLogged, cache, profiles, nextId,
                       diagCount, notFound, prev>>

\* auth.signUp answers: "user" with the new user, "nouser" without error and
\* without a user, "error" with a service error, "reject" by rejecting.  A
\* sign-up that gave a user may also have signed the new user in.
UpgradeSignUpAnswered(p, ans, sess) ==
    LET c == Answered(call[p], ans)
    IN  /\ call[p].pc = "signUp"
        /\ sess \in IF ans = "user" THEN Users \cup {session} ELSE {session}
        /\ session' = sess
        /\ IF ans = "user"
           THEN /\ cache' = clearAnonymousProfile(cache)
                /\ call' = [call EXCEPT ![p] = Finish(c, Return("true"))]
           ELSE /\ cache' = cache
                /\ call' = [call EXCEPT ![p] =
                                Finish(Emit(c, "AUTH_UPGRADE_ERROR"), Return("false"))]
        /\ UNCHANGED <<others, env, authTimeoutLogged, profiles, nextId, ncalls,
                       diagCount, notFound, prev>>

---------------------------------------------------------------------------
(* The remote store on its own *)

\* a guest row expires or is deleted at the remote store; the helper only
\* ever asks for the row the cache names, so only its loss is observable
RemoteDeletesProfile(id) ==
    /\ id \in profiles
    /\ id = cache
    /\ profiles' = profiles \ {id}
    /\ UNCHANGED <<others, env, session, authTimeoutLogged, cache, nextId, call,
                   ncalls, diagCount, notFound, prev>>

---------------------------------------------------------------------------
(* Specification: one caller, one helper call at a time *)

Step(p) ==
    \/ StartGetCurrentUserId(p)
    \/ \E d \in DataInputs, b \in BOOLEAN : StartCreateInsertPayload(p, d, b)
    \/ \E b \in BOOLEAN : StartGetUserQueryFilter(p, b)
    \/ StartGetOrCreateAnonymousProfile(p)
    \/ \E op \in IdentityHelpers : StartIdentityHelper(p, op)
    \/ StartSignOut(p)
    \/ \E ans \in SignOutAnswers, sess \in Users \cup {NULL} :
            SignOutAnswered(p, ans, sess)
    \/ \E validation \in {"passed", "rejected"} : StartUpgradeAnonymousUser(p, validation)
    \/ \E ans \in {"user", "nouser", "error", "reject"}, sess \in Users \cup {NULL} :
            UpgradeSignUpAnswered(p, ans, sess)
    \/ \E ans \in GetUserAnswers : GetUserSettles(p, ans)
    \/ TimerFires(p)
    \/ \E ans \in {"found", "notfound", "err", "throw"} : VerifyAnswered(p, ans)
    \/ \E ans \in {"id", "noid", "expires", "err", "throw"} : EnhancedCreateAnswered(p, ans)
    \/ \E ans \in {"id", "noid", "expires", "err"} : DirectCreateAnswered(p, ans)
    \/ \E ans \in {"found", "notfound", "ok_empty", "badjson", "fail", "throw"} :
            RestVerifyAnswered(p, ans)
    \/ \E ans \in {"id", "noid", "badjson", "fail"} : RestCreateAnswered(p, ans)

Next ==
    \/ Step(Main)
    \/ \E id \in Ids : RemoteDeletesProfile(id)

Spec == Init /\ [][Next]_vars

---------------------------------------------------------------------------
(* Specification: callers of getCurrentUserId and the promises their races
   left behind *)

NextRace ==
    \E p \in Procs :
        \/ StartGetCurrentUserId(p)
        \/ \E ans \in GetUserAnswers : GetUserSettles(p, ans)
        \/ TimerFires(p)
        \/ \E outcome \in GetUserAnswers \cup {"timer"} : LoserSettles(p, outcome)

SpecRace == Init /\ [][NextRace]_vars

---------------------------------------------------------------------------
(* Specification: getOrCreateAnonymousProfile called again and again by one
   caller, each call after the one before it has returned *)

CallAgain(p) ==
    /\ call[p].pc = "done"
    /\ ncalls < MaxCalls
    /\ prev' = Summary(call[p])
    /\ call' = [call EXCEPT ![p] =
                    GOCEnter(NewCall("getOrCreateAnonymousProfile", NoObj, FALSE), cache)]
    /\ ncalls' = ncalls + 1
    /\ UNCHANGED <<others, env, session, authTimeoutLogged, cache, profiles, nextId,
                   diagCount, notFound>>

FirstCall(p) ==
    /\ call[p].pc = "idle"
    /\ StartGetOrCreateAnonymousProfile(p)

NextTwice ==
    \/ FirstCall(Main)
    \/ CallAgain(Main)
    \/ \E ans \in {"found", "notfound", "err", "throw"} : VerifyAnswered(Main, ans)
    \/ \E ans \in {"id", "noid", "expires", "err", "throw"} :
            EnhancedCreateAnswered(Main, ans)
    \/ \E ans \in {"id", "noid", "expires", "err"} : DirectCreateAnswered(Main, ans)
    \/ \E ans \in {"found", "notfound", "ok_empty", "badjson", "fail", "throw"} :
            RestVerifyAnswered(Main, ans)
    \/ \E ans \in {"id", "noid", "badjson", "fail"} : RestCreateAnswered(Main, ans)
    \/ \E id \in Ids : RemoteDeletesProfile(id)

SpecTwice == Init /\ [][NextTwice]_vars

---------------------------------------------------------------------------
(* Specification: two callers call getOrCreateAnonymousProfile once each,
   their requests outstanding at the same time; nothing in the source
   serialises them *)

\* a guest; which diagnostics are reported does not matter here
InitConcurrent == Init /\ session = NULL /\ ~env.errorHandler

\* a call that finds the cache empty
ConcurrentCall(p) ==
    /\ cache = NULL
    /\ FirstCall(p)

NextConcurrent ==
    \/ \E p \in Procs :
          \/ ConcurrentCall(p)
          \/ \E ans \in {"id", "noid", "expires", "err", "throw"} :
                  EnhancedCreateAnswered(p, ans)
          \/ \E ans \in {"id", "noid", "expires", "err"} : DirectCreateAnswered(p, ans)
          \/ \E ans \in {"found", "notfound", "ok_empty", "badjson", "fail", "throw"} :
                  RestVerifyAnswered(p, ans)
          \/ \E ans \in {"id", "noid", "badjson", "fail"} : RestCreateAnswered(p, ans)
    \/ \E id \in Ids : RemoteDeletesProfile(id)

SpecConcurrent == InitConcurrent /\ [][NextConcurrent]_vars

---------------------------------------------------------------------------
(* Specification: a caller signed in as U1 signs out, then resolves its
   identity again and again *)

InitSignedIn == Init /\ session \in Users

FirstSignOut(p) ==
    /\ call[p].pc = "idle"
    /\ StartSignOut(p)

Resolvers == {"getCurrentUserId", "getCurrentUserIdentifier", "isAuthenticated"}

\* prev keeps what is remembered of the signOut
ResolveAgain(p, op) ==
    /\ call[p].pc = "done"
    /\ ncalls < MaxCalls
    /\ op \in Resolvers
    /\ prev' = IF call[p].op = "signOut" THEN Summary(call[p]) ELSE prev
    /\ call' = [call EXCEPT ![p] = BeginGetUserId(NewCall(op, NoObj, FALSE), cache)]
    /\ ncalls' = ncalls + 1
    /\ UNCHANGED <<others, env, session, authTimeoutLogged, cache, profiles, nextId,
                   diagCount, notFound>>

NextSignOut ==
    \/ FirstSignOut(Main)
    \/ \E ans \in SignOutAnswers, sess \in Users \cup {NULL} :
            SignOutAnswered(Main, ans, sess)
    \/ \E op \in Resolvers : ResolveAgain(Main, op)
    \/ \E ans \in GetUserAnswers : GetUserSettles(Main, ans)
    \/ TimerFires(Main)

SpecSignOut == InitSignedIn /\ [][NextSignOut]_vars

---------------------------------------------------------------------------
(* The logging layer: console-manager.js and simple-logger.js *)

\* the auth helper at rest on a page without client, handler or storage
AuthAtRest ==
    /\ env = [client |-> FALSE, errorHandler |-> FALSE, enhancedOp |-> FALSE,
              enhancedNet |-> FALSE, storage |-> FALSE]
    /\ session = NULL
    /\ authTimeoutLogged = FALSE
    /\ cache = NULL
    /\ profiles = {}
    /\ nextId = 0
    /\ call = [p \in Procs |-> IdleCall]
    /\ ncalls = 0
    /\ diagCount = [k \in CountedCodes |-> 0]
    /\ notFound = {}
    /\ prev = NoPrev

LOG_LEVELS == [SILENT |-> 0, ERROR |-> 1, WARN |-> 2, INFO |-> 3, DEBUG |-> 4]

LevelNames == DOMAIN LOG_LEVELS

\* the levels of the logging methods: logError, logWarn, logInfo, logDebug
MessageLevels == {"ERROR", "WARN", "INFO", "DEBUG"}

\* what getLogLevel can return: ?loglevel=<name>, or ?debug=true upper-cased
ConfiguredLevels == LevelNames \cup {"TRUE"}

LoggerScripts == {"console-manager", "simple-logger"}

\* LOG_LEVELS[name] || d : undefined and 0 are both falsy
OrDefault(name, d) ==
    IF name \in LevelNames /\ LOG_LEVELS[name] # 0 THEN LOG_LEVELS[name] ELSE d

\* ConsoleManager.shouldLog (console-manager.js) and shouldLog with
\* currentLogLevel (simple-logger.js)
shouldLog(script, level, configured) ==
    IF script = "console-manager"
    THEN OrDefault(level, 1) <= OrDefault(configured, 1)
    ELSE /\ level \in LevelNames
         /\ LOG_LEVELS[level] <= OrDefault(configured, LOG_LEVELS["ERROR"])

InitLogger ==
    /\ AuthAtRest
    /\ fetcher = NotLoaded
    /\ registration = NotLoaded
    /\ pager = NotLoaded
    /\ invitation = NotLoaded
    /\ modal = NotLoaded
    /\ \E script \in LoggerScripts, configured \in ConfiguredLevels :
           logger = [loaded |-> TRUE, script |-> script, logLevel |-> configured,
                     out |-> {},
                     last |-> [configured |-> configured, level |-> "none",
                               shown |-> FALSE]]

\* console.logError / logWarn / logInfo / logDebug
LogMessage(level) ==
    LET shown == shouldLog(logger.script, level, logger.logLevel)
    IN  /\ logger.loaded
        /\ logger' = [logger EXCEPT
                          !.out = IF shown THEN @ \cup {level} ELSE @,
                          !.last = [configured |-> logger.logLevel,
                                    level |-> level, shown |-> shown]]
        /\ UNCHANGED <<authVars, fetcher, registration, pager, invitation, modal>>

\* ConsoleManager.setLogLevel; simple-logger's setLogLevel changes nothing
setLogLevel(level) ==
    /\ logger.loaded
    /\ logger.script = "console-manager"
    /\ level \in LevelNames
    /\ logger' = [logger EXCEPT !.logLevel = level]
    /\ UNCHANGED <<authVars, fetcher, registration, pager, invitation, modal>>

NextLogger ==
    \/ \E level \in MessageLevels : LogMessage(level)
    \/ \E level \in LevelNames : setLogLevel(level)

SpecLogger == InitLogger /\ [][NextLogger]_vars

---------------------------------------------------------------------------
(* The security middleware around fetch: src/unnamed/part_001 *)

\* URLs are sequences of pieces; a pattern is a sequence of pieces too, and
\* String.includes is the search for the pattern as a contiguous run
Urls ==
    { <<"/", "tables", "/", "users">>,
      <<"/", "admin", "/", "users">>,
      <<"/", "api", "/", "protected", "/", "data">>,
      <<"/", "api", "/", "public", "/", "info">>,
      <<"https:", "/", "/", "proj.", "supabase.co", "/", "admin", "/", "users">>,
      <<"/", "health">>,
      <<"/", "app.html">> }

protectedEndpoints ==
    { <<"/", "tables", "/">>, <<"/", "admin", "/">>, <<"/", "api", "/", "protected">> }

publicEndpoints ==
    { <<"/", "api", "/", "public">>, <<"/", "health">>, <<"/", "status">>,
      <<"supabase.co">>, <<"/", "auth", "/", "v1">>, <<"tables", "/">> }

authorizedCoaches == {"coach@example.com", "admin@example.com", "owner@example.com"}

\* window.authWrapper.currentUser: nobody, a coach, a client
FetchUsers == {NULL, "coach@example.com", "client@example.com"}

Includes(url, pattern) ==
    \E i \in 1..Len(url) :
        /\ i + Len(pattern) <= Len(url) + 1
        /\ SubSeq(url, i, i + Len(pattern) - 1) = pattern

isProtectedEndpoint(url) == \E endpoint \in protectedEndpoints : Includes(url, endpoint)

isPublicEndpoint(url) == \E endpoint \in publicEndpoints : Includes(url, endpoint)

isUserAuthenticated(user) == user # NULL

isAuthorizedCoach(user) == user \in authorizedCoaches

AuthenticationRequired == "Authentication required for this endpoint"
AdminRequired == "Admin privileges required for this endpoint"

\* secureFletch: "forwarded" when the request goes to the original fetch,
\* otherwise the message of the rejection
secureFetch(url, developmentMode, user) ==
    IF isPublicEndpoint(url) THEN "forwarded"
    ELSE IF isProtectedEndpoint(url)
    THEN IF developmentMode THEN "forwarded"
         ELSE IF ~isUserAuthenticated(user) THEN AuthenticationRequired
         ELSE IF Includes(url, <<"/", "admin", "/">>) /\ ~isAuthorizedCoach(user)
         THEN AdminRequired
         ELSE "forwarded"
    ELSE "forwarded"

NoRequest == [url |-> <<>>, outcome |-> "none", developmentMode |-> TRUE, user |-> NULL]

InitFetch ==
    /\ AuthAtRest
    /\ logger = NotLoaded
    /\ registration = NotLoaded
    /\ pager = NotLoaded
    /\ invitation = NotLoaded
    /\ modal = NotLoaded
    /\ \E user \in FetchUsers :
           fetcher = [loaded |-> TRUE, developmentMode |-> TRUE, user |-> user,
                      last |-> NoRequest]

\* window.fetch(url)
Fetch(url) ==
    /\ fetcher.loaded
    /\ fetcher' = [fetcher EXCEPT !.last =
                      [url |-> url,
                       outcome |-> secureFetch(url, fetcher.developmentMode, fetcher.user),
                       developmentMode |-> fetcher.developmentMode,
                       user |-> fetcher.user]]
    /\ UNCHANGED <<authVars, logger, registration, pager, invitation, modal>>

\* window.secureFetch.setDevelopmentMode(enabled)
setDevelopmentMode(enabled) ==
    /\ fetcher.loaded
    /\ fetcher' = [fetcher EXCEPT !.developmentMode = enabled]
    /\ UNCHANGED <<authVars, logger, registration, pager, invitation, modal>>

\* somebody signs in or out: window.authWrapper.currentUser changes
CurrentUserChanges(user) ==
    /\ fetcher.loaded
    /\ user # fetcher.user
    /\ fetcher' = [fetcher EXCEPT !.user = user]
    /\ UNCHANGED <<authVars, logger, registration, pager, invitation, modal>>

NextFetch ==
    \/ \E url \in Urls : Fetch(url)
    \/ \E enabled \in BOOLEAN : setDevelopmentMode(enabled)
    \/ \E user \in FetchUsers : CurrentUserChanges(user)

SpecFetch == InitFetch /\ [][NextFetch]_vars

---------------------------------------------------------------------------
(* Coach registration by invitation code: src/enhanced-invitation-handler.js *)

MinPasswordLength == 8

\* what the visitor can type into #password and #confirm-password
Passwords == {"", "short77", "longer88", "another99"}

SignUpAnswers == {"user", "nouser", "error", "reject"}
ProfileInsertAnswers == {"ok", "error", "reject"}
RpcAnswers == {"true", "notfound", "error", "reject"}

\* the usage count of the invitation code on the server, before the page
PriorUsage == {0, 1}

\* incrementInvitationCodeUsage: the rpc increments the row only when it
\* answers true; every other answer is logged and swallowed
UsageAfterRpc(ans, usage) == IF ans = "true" THEN usage + 1 ELSE usage

InitRegistration ==
    /\ AuthAtRest
    /\ logger = NotLoaded
    /\ fetcher = NotLoaded
    /\ pager = NotLoaded
    /\ invitation = NotLoaded
    /\ modal = NotLoaded
    /\ \E usage \in PriorUsage :
           registration = [loaded |-> TRUE, phase |-> "form",
                           password |-> "", confirmPassword |-> "",
                           shown |-> "form", usage |-> usage, increments |-> 0,
                           signUp |-> "none", rpc |-> "none"]

\* the visitor edits the form (the button is disabled while a submission runs)
TypePassword(pw) ==
    /\ registration.loaded
    /\ registration.phase = "form"
    /\ pw # registration.password
    /\ registration' = [registration EXCEPT !.password = pw]
    /\ UNCHANGED <<authVars, logger, fetcher, pager, invitation, modal>>

TypeConfirmPassword(pw) ==
    /\ registration.loaded
    /\ registration.phase = "form"
    /\ pw # registration.confirmPassword
    /\ registration' = [registration EXCEPT !.confirmPassword = pw]
    /\ UNCHANGED <<authVars, logger, fetcher, pager, invitation, modal>>

\* completeCoachRegistration up to the await of auth.signUp
completeCoachRegistration ==
    /\ registration.loaded
    /\ registration.phase = "form"
    /\ registration' =
          IF registration.password # registration.confirmPassword
          THEN [registration EXCEPT !.shown = "Passwords do not match",
                                    !.increments = 0, !.signUp = "none", !.rpc = "none"]
          ELSE IF Len(registration.password) < MinPasswordLength
          THEN [registration EXCEPT !.shown = "Password must be at least 8 characters long",
                                    !.increments = 0, !.signUp = "none", !.rpc = "none"]
          ELSE [registration EXCEPT !.phase = "signUp", !.shown = "Creating Account...",
                                    !.increments = 0, !.signUp = "none", !.rpc = "none"]
    /\ UNCHANGED <<authVars, logger, fetcher, pager, invitation, modal>>

\* auth.signUp answers
SignUpAnswered(ans) ==
    /\ registration.loaded
    /\ registration.phase = "signUp"
    /\ registration' =
          IF ans \in {"error", "reject"}
          THEN [registration EXCEPT !.phase = "form", !.signUp = ans,
                                    !.shown = "Failed to complete registration"]
          ELSE IF ans = "user"
          THEN [registration EXCEPT !.phase = "profile", !.signUp = ans]
          ELSE [registration EXCEPT !.phase = "done", !.signUp = ans,
                                    !.shown = "success"]
    /\ UNCHANGED <<authVars, logger, fetcher, pager, invitation, modal>>

\* the insert into user_profiles answers: an error is logged and the
\* registration continues, a rejected promise goes to the catch
ProfileInsertAnswered(ans) ==
    /\ registration.loaded
    /\ registration.phase = "profile"
    /\ registration' =
          IF ans = "reject"
          THEN [registration EXCEPT !.phase = "form",
                                    !.shown = "Failed to complete registration"]
          ELSE [registration EXCEPT !.phase = "rpc"]
    /\ UNCHANGED <<authVars, logger, fetcher, pager, invitation, modal>>

\* incrementInvitationCodeUsage returns, then the success message
RpcAnswered(ans) ==
    /\ registration.loaded
    /\ registration.phase = "rpc"
    /\ registration' =
          [registration EXCEPT
              !.phase = "done", !.rpc = ans, !.shown = "success",
              !.usage = UsageAfterRpc(ans, registration.usage),
              !.increments = UsageAfterRpc(ans, registration.usage) - registration.usage]
    /\ UNCHANGED <<authVars, logger, fetcher, pager, invitation, modal>>

NextRegistration ==
    \/ \E pw \in Passwords : TypePassword(pw)
    \/ \E pw \in Passwords : TypeConfirmPassword(pw)
    \/ completeCoachRegistration
    \/ \E ans \in SignUpAnswers : SignUpAnswered(ans)
    \/ \E ans \in ProfileInsertAnswers : ProfileInsertAnswered(ans)
    \/ \E ans \in RpcAnswers : RpcAnswered(ans)

SpecRegistration == InitRegistration /\ [][NextRegistration]_vars

---------------------------------------------------------------------------
(* SupabaseQueryHelper.applyPagination: src/supabase-query-fixes.js *)

MaxRecords == 1000
DefaultLimit == 100

\* what a caller can pass as limit or offset: nothing (undefined, null, ''),
\* a text that is no number, or a number
PageArguments ==
    {[kind |-> "absent", val |-> 0], [kind |-> "text", val |-> 0]}
    \cup {[kind |-> "number", val |-> n] :
              n \in {-5, -1, 0, 1, 50, 100, 999, 1000, 1001, 5000}}

\* parseInt(x) || d: NaN and 0 give d
ParseIntOr(x, d) == IF x.kind = "number" /\ x.val # 0 THEN x.val ELSE d

\* the row window on the query afterwards: limit(n) asks for n rows,
\* range(from, to) asks for the rows from..to and replaces the count;
\* `if (limit)` and `if (offset)` skip undefined and 0
applyPagination(query, limit, offset) ==
    LET truthy(x) == x.kind = "text" \/ (x.kind = "number" /\ x.val # 0)
        min(a, b) == IF a <= b THEN a ELSE b
        max(a, b) == IF a >= b THEN a ELSE b
        safeLimit == min(ParseIntOr(limit, DefaultLimit), MaxRecords)
        safeOffset == max(ParseIntOr(offset, 0), 0)
        q1 == IF truthy(limit)
              THEN [query EXCEPT !.limited = TRUE, !.count = safeLimit]
              ELSE query
        q2 == IF truthy(offset)
              THEN [q1 EXCEPT !.limited = TRUE, !.from = safeOffset,
                              !.count = ParseIntOr(limit, DefaultLimit)]
              ELSE q1
    IN  IF query.null THEN query ELSE q2

InitPagination ==
    /\ AuthAtRest
    /\ logger = NotLoaded
    /\ fetcher = NotLoaded
    /\ registration = NotLoaded
    /\ invitation = NotLoaded
    /\ modal = NotLoaded
    /\ pager = [loaded |-> TRUE, called |-> FALSE,
                limit |-> [kind |-> "absent", val |-> 0],
                offset |-> [kind |-> "absent", val |-> 0],
                query |-> [null |-> FALSE, limited |-> FALSE, count |-> 0, from |-> 0]]

\* SupabaseQueryHelper.applyPagination(query, limit, offset) on a fresh
\* query, or on no query at all
CallApplyPagination(isNull, limit, offset) ==
    /\ pager.loaded
    /\ pager' = [pager EXCEPT
                    !.called = TRUE, !.limit = limit, !.offset = offset,
                    !.query = applyPagination(
                                  [null |-> isNull, limited |-> FALSE, count |-> 0, from |-> 0],
                                  limit, offset)]
    /\ UNCHANGED <<authVars, logger, fetcher, registration, invitation, modal>>

SpecPagination ==
    InitPagination /\
    [][\E isNull \in BOOLEAN, limit \in PageArguments, offset \in PageArguments :
          CallApplyPagination(isNull, limit, offset)]_vars

---------------------------------------------------------------------------
(* The email-invitation fix: src/EMAIL-INVITATION-FIX.js *)

\* the calls of checkAndCreateUserProfile that can be in flight together
Checks == {"k1", "k2"}

\* the page before setupEnhancedEmailInvitationHandler has run: the login
\* handlers other scripts registered, which of them throw, and whether the
\* user already has a row in user_profiles
InitInvitation ==
    /\ AuthAtRest
    /\ logger = NotLoaded
    /\ fetcher = NotLoaded
    /\ registration = NotLoaded
    /\ pager = NotLoaded
    /\ modal = NotLoaded
    /\ \E login \in {<<"h1">>, <<"h1", "h2">>}, throwing \in SUBSET {"h1", "h2"},
          rows \in {0, 1} :
           invitation = [loaded |-> TRUE, installed |-> FALSE,
                         login |-> login, originalLoginHandlers |-> <<>>,
                         throwing |-> throwing, logins |-> 0,
                         dispatched |-> FALSE,
                         invoked |-> [h \in {"h1", "h2"} |-> 0],
                         rows |-> rows,
                         pc |-> [k \in Checks |-> "idle"],
                         inserted |-> [k \in Checks |-> 0]]

\* lines 104-107: the handlers are copied, the enhanced handler is put first
setupEnhancedEmailInvitationHandler ==
    /\ invitation.loaded
    /\ ~invitation.installed
    /\ invitation' = [invitation EXCEPT
                         !.installed = TRUE,
                         !.originalLoginHandlers = invitation.login,
                         !.login = <<"enhanced">> \o invitation.login]
    /\ UNCHANGED <<authVars, logger, fetcher, registration, pager, modal>>

\* how often handler h runs when one login event is handed to every entry
\* of listeners.login in order: once for its own entry, and once for each
\* copy of it in originalLoginHandlers when the enhanced handler runs (lines
\* 133-139, every call in its own try/catch).  The enhanced handler does not
\* throw.  A handler that throws when called for its own entry ends the
\* round unless the dispatcher catches.
Invocations(h, login, original, throwing, catches) ==
    LET stoppers == {i \in 1..Len(login) : login[i] \in throwing /\ ~catches}
        reached == {i \in 1..Len(login) : \A j \in stoppers : i <= j}
        byEnhanced == IF \E i \in reached : login[i] = "enhanced"
                      THEN {i \in 1..Len(original) : original[i] = h}
                      ELSE {}
    IN  Cardinality({i \in reached : login[i] = h}) + Cardinality(byEnhanced)

\* one login event.  flow: "code" (window.validInviteCode), "email" (the
\* enhanced handler calls handleEmailInvitationSignup, which starts
\* checkAndCreateUserProfile, running up to its first await), "regular"
DispatchLogin(flow, catches, k) ==
    LET starts == invitation.installed /\ flow = "email"
    IN  /\ invitation.loaded
        /\ invitation.logins < MaxLogins
        /\ starts => invitation.pc[k] \in {"idle", "done"}
        /\ ~starts => k = "k1"
        /\ invitation' = [invitation EXCEPT
                             !.logins = @ + 1,
                             !.dispatched = TRUE,
                             !.invoked = [h \in {"h1", "h2"} |->
                                 Invocations(h, invitation.login,
                                             invitation.originalLoginHandlers,
                                             invitation.throwing, catches)],
                             !.pc[k] = IF starts THEN "check" ELSE @,
                             !.inserted[k] = IF starts THEN 0 ELSE @]
        /\ UNCHANGED <<authVars, logger, fetcher, registration, pager, modal>>

\* the select ... .single() on user_profiles answers: "found" with the row
\* when there is exactly one, "none" when there is none, "error" for any
\* failure (the service, the network, more than one row), "reject" by
\* rejecting.  Only a row in the answer ends the call (line 22).
CheckAnswered(k, ans) ==
    /\ invitation.loaded
    /\ invitation.pc[k] = "check"
    /\ ans = "found" => invitation.rows = 1
    /\ ans = "none" => invitation.rows = 0
    /\ invitation' = [invitation EXCEPT
                         !.pc[k] = IF ans \in {"found", "reject"} THEN "done"
                                   ELSE "insert"]
    /\ UNCHANGED <<authVars, logger, fetcher, registration, pager, modal>>

\* the insert into user_profiles answers; the row carries a fresh id
InsertAnswered(k, ans) ==
    /\ invitation.loaded
    /\ invitation.pc[k] = "insert"
    /\ invitation' = [invitation EXCEPT
                         !.rows = IF ans = "ok" THEN @ + 1 ELSE @,
                         !.inserted[k] = IF ans = "ok" THEN @ + 1 ELSE @,
                         !.pc[k] = IF ans = "ok" THEN "role" ELSE "done"]
    /\ UNCHANGED <<authVars, logger, fetcher, registration, pager, modal>>

\* the role assignment (lines 52-84) ends one way or another; what it
\* throws is caught at line 87
RoleAssignmentEnds(k) ==
    /\ invitation.loaded
    /\ invitation.pc[k] = "role"
    /\ invitation' = [invitation EXCEPT !.pc[k] = "done"]
    /\ UNCHANGED <<authVars, logger, fetcher, registration, pager, modal>>

NextInvitation ==
    \/ setupEnhancedEmailInvitationHandler
    \/ \E flow \in {"code", "email", "regular"}, catches \in BOOLEAN, k \in Checks :
            DispatchLogin(flow, catches, k)
    \/ \E k \in Checks, ans \in {"found", "none", "error", "reject"} : CheckAnswered(k, ans)
    \/ \E k \in Checks, ans \in {"ok", "error", "reject"} : InsertAnswered(k, ans)
    \/ \E k \in Checks : RoleAssignmentEnds(k)

SpecInvitation == InitInvitation /\ [][NextInvitation]_vars

---------------------------------------------------------------------------
(* SimpleAuthModal: src/authHelper-old-complex.js, lines 889-1095 *)

\* mutant: close() leaves the callbacks registered
CallbacksKeptOnClose(callbacks) == callbacks

\* line 1087: this.callbacks = []
CallbacksAfterClose(callbacks) == <<>>

\* registrations are numbered in the order they are made; closed collects
\* the registrations a close() has followed, invoked counts the calls of
\* each registered callback
InitModal ==
    /\ AuthAtRest
    /\ logger = NotLoaded
    /\ fetcher = NotLoaded
    /\ registration = NotLoaded
    /\ pager = NotLoaded
    /\ invitation = NotLoaded
    /\ modal = [loaded |-> TRUE, isOpen |-> FALSE, callbacks |-> <<>>,
                loading |-> FALSE, error |-> FALSE, inFlight |-> 0,
                registered |-> 0, closed |-> {},
                invoked |-> [r \in 1..MaxRegistrations |-> 0],
                lastAns |-> "none"]

\* the modal after this.close()
Closed(m) ==
    [m EXCEPT !.isOpen = FALSE, !.error = FALSE, !.loading = FALSE,
              !.callbacks = CallbacksAfterClose(m.callbacks),
              !.closed = {r \in 1..m.registered : TRUE}]

\* open(successCallback), with or without a callback
open(withCallback) ==
    /\ modal.loaded
    /\ withCallback => modal.registered < MaxRegistrations
    /\ modal' = [modal EXCEPT
                    !.isOpen = TRUE,
                    !.registered = IF withCallback THEN @ + 1 ELSE @,
                    !.callbacks = IF withCallback
                                  THEN Append(@, modal.registered + 1) ELSE @]
    /\ UNCHANGED <<authVars, logger, fetcher, registration, pager, invitation>>

\* on(event, callback)
on(event) ==
    /\ modal.loaded
    /\ modal.registered < MaxRegistrations
    /\ modal' = IF event = "login"
                THEN [modal EXCEPT !.registered = @ + 1,
                                   !.callbacks = Append(@, modal.registered + 1)]
                ELSE modal
    /\ UNCHANGED <<authVars, logger, fetcher, registration, pager, invitation>>

\* close(): the close button, a click on the backdrop, Escape while open
close ==
    /\ modal.loaded
    /\ modal.isOpen
    /\ modal' = Closed(modal)
    /\ UNCHANGED <<authVars, logger, fetcher, registration, pager, invitation>>

\* handleSubmit up to the await of signInWithPassword; the form can be
\* submitted while the modal is open and the button is not disabled
handleSubmit(filled) ==
    /\ modal.loaded
    /\ modal.isOpen
    /\ ~modal.loading
    /\ filled => modal.inFlight < MaxInFlight
    /\ modal' = IF filled
                THEN [modal EXCEPT !.loading = TRUE, !.error = FALSE,
                                   !.inFlight = @ + 1]
                ELSE [modal EXCEPT !.error = TRUE]
    /\ UNCHANGED <<authVars, logger, fetcher, registration, pager, invitation>>

\* signInWithPassword answers: with a user, without error and without a
\* user, with an error, or by rejecting; then the rest of handleSubmit
SignInAnswered(ans) ==
    LET called == [modal EXCEPT
                      !.invoked = [r \in 1..MaxRegistrations |->
                          @[r] + Cardinality({i \in 1..Len(modal.callbacks) :
                                                 modal.callbacks[i] = r})]]
        after == IF ans = "user"
                 THEN Closed(called)
                 ELSE [modal EXCEPT !.error = TRUE, !.loading = FALSE]
    IN  /\ modal.loaded
        /\ modal.inFlight > 0
        /\ modal' = [after EXCEPT !.inFlight = modal.inFlight - 1, !.lastAns = ans]
        /\ UNCHANGED <<authVars, logger, fetcher, registration, pager, invitation>>

NextModal ==
    \/ \E withCallback \in BOOLEAN : open(withCallback)
    \/ \E event \in {"login", "logout"} : on(event)
    \/ close
    \/ \E filled \in BOOLEAN : handleSubmit(filled)
    \/ \E ans \in {"user", "nouser", "error", "reject"} : SignInAnswered(ans)

SpecModal == InitModal /\ [][NextModal]_vars

---------------------------------------------------------------------------
(* Claims *)

IdentityFields == {"user_id", "anon_profile_id"}

\* C1: when the 5000 ms timer wins the race, getCurrentUserId returns null
\* and does not throw; over the whole session AUTH_TIMEOUT is reported to the
\* error handler at most once.
C1_TimeoutReturnsNullLogsOnce ==
    /\ \A p \in Procs :
          call[p].race = "timer" =>
             /\ call[p].uid = NULL
             /\ call[p].op = "getCurrentUserId" => call[p].ret = Return(NULL)
    /\ diagCount["AUTH_TIMEOUT"] <= 1

\* a second timeout in a session that has already reported one
C1_Witness ==
    /\ call[Main].op = "getCurrentUserId"
    /\ call[Main].race = "timer"
    /\ call[Main].flagBefore
    /\ call[Main].ret = Return(NULL)
    /\ diagCount["AUTH_TIMEOUT"] = 1

\* C2 (as claimed): every call in which getUser answers with a service error
\* returns null and reports the error to the error handler, whatever was
\* reported earlier in the session.
C2_ServiceErrorAlwaysReported ==
    \A p \in Procs :
        (call[p].race = "error" /\ env.errorHandler) =>
            /\ call[p].uid = NULL
            /\ "AUTH_GET_USER" \in call[p].emitted

\* C2 (amended): a call in which getUser answers with a service error returns
\* null; it reports AUTH_GET_USER exactly when an error handler is installed
\* and window.authTimeoutLogged is still false, and the report sets the flag,
\* so that AUTH_GET_USER is reported at most once per session.
C2_ServiceErrorReportedOncePerSession ==
    /\ \A p \in Procs :
          call[p].race = "error" =>
             /\ call[p].uid = NULL
             /\ "AUTH_GET_USER" \in call[p].emitted
                    <=> (env.errorHandler /\ ~call[p].flagBefore)
             /\ "AUTH_GET_USER" \in call[p].emitted => authTimeoutLogged
    /\ diagCount["AUTH_GET_USER"] <= 1

\* a service error that is not reported because the flag was already set
C2_Witness ==
    /\ call[Main].race = "error"
    /\ env.errorHandler
    /\ call[Main].flagBefore
    /\ "AUTH_GET_USER" \notin call[Main].emitted
    /\ call[Main].uid = NULL

\* C3: every payload createInsertPayload(data, false) returns has exactly one
\* of user_id and anon_profile_id set.
C3_ExactlyOneIdentityField ==
    \A p \in Procs :
        (call[p].op = "createInsertPayload" /\ ~call[p].flag /\ call[p].pc = "done") =>
            /\ call[p].ret.kind = "return"
            /\ Truthy(Get(call[p].ret.obj, "user_id"))
                   # Truthy(Get(call[p].ret.obj, "anon_profile_id"))

\* C4: createInsertPayload(data, true) throws 'User not authenticated' and
\* produces no payload when getCurrentUserId yields no user; when it yields U
\* (getUser answered with the session's user) the payload is data with
\* user_id = U and anon_profile_id = null.
C4_RequireAuthPayload ==
    \A p \in Procs :
        (call[p].op = "createInsertPayload" /\ call[p].flag /\ call[p].pc = "done") =>
            /\ (call[p].race = "ok" /\ session \in Users) => call[p].uid = session
            /\ IF call[p].uid \in Users
               THEN /\ call[p].ret.kind = "return"
                    /\ DOMAIN call[p].ret.obj = DOMAIN call[p].data \cup IdentityFields
                    /\ call[p].ret.obj["user_id"] = call[p].uid
                    /\ call[p].ret.obj["anon_profile_id"] = NULL
                    /\ \A k \in DOMAIN call[p].data \ IdentityFields :
                          call[p].ret.obj[k] = call[p].data[k]
               ELSE call[p].ret = Throw("User not authenticated")

\* an authenticated caller whose data carried identity fields of its own
C4_Witness ==
    /\ call[Main].op = "createInsertPayload"
    /\ call[Main].flag
    /\ call[Main].pc = "done"
    /\ call[Main].ret.kind = "return"
    /\ "user_id" \in DOMAIN call[Main].data
    /\ call[Main].ret.obj["user_id"] = "U1"

Shapes(path) ==
    IF path = "enh" THEN <<"enh_a", "enh_b", "enh_c">>
    ELSE IF path = "dir" THEN <<"dir_a", "dir_b", "dir_c">>
    ELSE <<"rest_a", "rest_b", "rest_c">>

\* the create requests of a call on one code path, in order
PathAttempts(c, path) ==
    LET sh == Shapes(path)
    IN  SelectSeq(c.attempts, LAMBDA st : st \in {sh[1], sh[2], sh[3]})

IsPrefix(s, t) == Len(s) <= Len(t) /\ s = SubSeq(t, 1, Len(s))

\* the request outstanding is one that reached a transport
Outstanding(c, stage) ==
    /\ c.pc = stage
    /\ Len(c.attempts) > 0
    /\ c.attempts[Len(c.attempts)] = stage

\* C5 (as claimed): on every transport path the create requests of a call
\* are issued in the order a, b, c: shape (b) follows every failure of (a)
\* and (c) is tried only after (b).
C5_LenientOrderOnEveryTransport ==
    \A p \in Procs : \A path \in {"enh", "dir", "rest"} :
        IsPrefix(PathAttempts(call[p], path), Shapes(path))

\* C5 (amended): on the HTTP transport the order is always a, b, c.  On the
\* structured transport (enhanced and direct) shape (b) is requested only
\* after (a) failed with a message mentioning expires_at; after any other
\* failure of (a) the next request is (c), so the order is [a, b, c] or
\* [a, c].
C5_OrderPerTransport ==
    \A p \in Procs :
        /\ IsPrefix(PathAttempts(call[p], "rest"), Shapes("rest"))
        /\ \A st \in {"rest_b", "rest_c"} :
              Outstanding(call[p], st) =>
                  call[p].lastAns \in {"fail", "noid", "badjson"}
        /\ \A path \in {"enh", "dir"} :
              LET a == Shapes(path)[1]
                  b == Shapes(path)[2]
                  c == Shapes(path)[3]
                  seen == PathAttempts(call[p], path)
              IN  /\ seen \in {<<>>, <<a>>, <<a, b>>, <<a, b, c>>, <<a, c>>}
                  /\ Outstanding(call[p], b) => call[p].lastAns = "expires"
                  /\ (Outstanding(call[p], c) /\ seen = <<a, c>>) =>
                         call[p].lastAns = "err"
                  /\ (Outstanding(call[p], c) /\ seen = <<a, b, c>>) =>
                         call[p].lastAns \in {"expires", "err"}

\* shape (a) failed with an unrelated error on the direct path, which went
\* straight to (c); then all three shapes were posted in order
C5_Witness ==
    call[Main].attempts = <<"dir_a", "dir_c", "rest_a", "rest_b", "rest_c">>

\* C6: one call of getOrCreateAnonymousProfile creates at most one row in
\* the remote table, across all shapes and transports.
C6_AtMostOneProfilePerCall ==
    \A p \in Procs : Cardinality(call[p].created) <= 1

\* C7: two calls of getOrCreateAnonymousProfile in sequence, the first
\* finding the cache empty, storage working and no request failing, return
\* the same id and issue exactly one create request between them.
C7_Idempotent ==
    \A p \in Procs :
        ( /\ call[p].pc = "done"
          /\ prev.op = "getOrCreateAnonymousProfile"
          /\ prev.cacheAtStart = NULL
          /\ env.storage
          /\ ~prev.failed
          /\ ~call[p].failed ) =>
            /\ prev.val \in Ids
            /\ call[p].ret = Return(prev.val)
            /\ prev.nreq + Len(call[p].attempts) = 1

\* the second of two such calls has returned
C7_Witness ==
    /\ call[Main].pc = "done"
    /\ prev.op = "getOrCreateAnonymousProfile"
    /\ prev.cacheAtStart = NULL
    /\ ~prev.failed
    /\ ~call[Main].failed
    /\ call[Main].cacheAtStart = prev.val
    /\ call[Main].ret = Return("A1")

\* C8: an id the remote store has reported as not found is never in the
\* cache afterwards; the call that found its cached id missing issues a
\* create request, does not return the old id, and when it returns an id
\* that id is one it created and is the one now cached.
C8_SelfHealing ==
    /\ cache \notin notFound
    /\ \A p \in Procs :
          (call[p].pc = "done" /\ call[p].cacheAtStart \in notFound) =>
              /\ call[p].gocRet # call[p].cacheAtStart
              /\ Len(call[p].attempts) >= 1
              /\ call[p].gocRet \in Ids =>
                    /\ call[p].gocRet \in call[p].created
                    /\ cache = call[p].gocRet

\* the cached id was reported missing, evicted and replaced by a new one
C8_Witness ==
    /\ call[Main].pc = "done"
    /\ call[Main].cacheAtStart \in notFound
    /\ call[Main].gocRet \in Ids
    /\ call[Main].gocRet # call[Main].cacheAtStart
    /\ cache = call[Main].gocRet

\* C9: getOrCreateAnonymousProfile does not throw, and returns null whenever
\* it does not return an id.
C9_NullWhenNoId ==
    \A p \in Procs :
        (call[p].pc = "done" /\ call[p].gocRet # "none") =>
            /\ call[p].ret.kind = "return"
            /\ call[p].gocRet \in Ids \cup {NULL}

\* C10: getUserQueryFilter returns an object and never throws: {user_id: U}
\* when getCurrentUserId yields U, {anon_profile_id: A} when it yields no
\* user, anonymous is allowed and getOrCreateAnonymousProfile returned the id
\* A, and the no-user sentinel in every other case.
C10_QueryFilter ==
    \A p \in Procs :
        (call[p].op = "getUserQueryFilter" /\ call[p].pc = "done") =>
            /\ call[p].ret.kind = "return"
            /\ call[p].ret.val = "object"
            /\ (call[p].race = "ok" /\ session \in Users) => call[p].uid = session
            /\ ~call[p].flag => call[p].gocRet = "none"
            /\ IF call[p].uid \in Users
               THEN call[p].ret.obj = [user_id |-> call[p].uid]
               ELSE IF call[p].flag /\ call[p].gocRet \in Ids
               THEN call[p].ret.obj = [anon_profile_id |-> call[p].gocRet]
               ELSE call[p].ret.obj = Sentinel

\* nothing resolvable: no client, no storage, anonymous allowed
C10_Witness ==
    /\ call[Main].op = "getUserQueryFilter"
    /\ call[Main].pc = "done"
    /\ call[Main].flag
    /\ ~env.client
    /\ ~env.storage
    /\ call[Main].gocRet = NULL
    /\ call[Main].ret.obj = Sentinel

\* C11: requireUserIdentifier throws 'No valid user identifier available'
\* exactly when neither a user id nor an anonymous profile id is resolvable;
\* an unauthenticated caller whose cached guest profile exists in the remote
\* store gets an identifier carrying that profile's id.
C11_IdentifierWheneverResolvable ==
    \A p \in Procs :
        (call[p].op = "requireUserIdentifier" /\ call[p].pc = "done") =>
            IF call[p].uid \in Users
            THEN /\ call[p].ret.kind = "return"
                 /\ Get(call[p].ret.obj, "user_id") = call[p].uid
            ELSE IF cache \in profiles
            THEN /\ call[p].ret.kind = "return"
                 /\ Get(call[p].ret.obj, "anon_profile_id") = cache
            ELSE call[p].ret = Throw("No valid user identifier available")

\* C12: signOut does not throw, and when it has completed the cache of the
\* anonymous profile id is empty, whatever the remote sign-out answered and
\* also when there is no client.
C12_SignOutClearsCache ==
    \A p \in Procs :
        (call[p].op = "signOut" /\ call[p].pc = "done") =>
            /\ call[p].ret = Return(UNDEF)
            /\ cache = NULL

\* the remote sign-out timed out while the cache held a guest profile id
C12_Witness ==
    /\ call[Main].op = "signOut"
    /\ call[Main].pc = "done"
    /\ call[Main].lastAns = "timeout"
    /\ call[Main].cacheAtStart \in Ids
    /\ cache = NULL

C15_SnapshotConsistent ==
    \A p \in Procs :
        (call[p].op = "getAuthState" /\ call[p].pc = "done") =>
            /\ call[p].ret.kind = "return"
            /\ DOMAIN call[p].ret.obj =
                  {"isAuthenticated", "isAnonymous", "userId", "anonProfileId"}
            /\ call[p].ret.obj["isAuthenticated"] \in {"true", "false"}
            /\ call[p].ret.obj["isAnonymous"] \in {"true", "false"}
            /\ call[p].ret.obj["isAnonymous"] # call[p].ret.obj["isAuthenticated"]
            /\ (call[p].ret.obj["userId"] # NULL)
                  <=> (call[p].ret.obj["isAuthenticated"] = "true")
            /\ call[p].ret.obj["isAuthenticated"] = "true" =>
                  call[p].ret.obj["anonProfileId"] = NULL

\* an authenticated caller whose cache holds a guest profile id
C15_Witness ==
    /\ call[Main].op = "getAuthState"
    /\ call[Main].pc = "done"
    /\ call[Main].ret.obj["isAuthenticated"] = "true"
    /\ cache \in Ids

\* C16: getCurrentUserId returns U exactly when there is a client and
\* getUser answers before the timer, without error, with the user U of the
\* session; in every other case (no client, no user, a reported error, a
\* timeout, a rejection) it returns null.
C16_UserIdExactlyWhenAnswered ==
    \A p \in Procs :
        (call[p].op = "getCurrentUserId" /\ call[p].pc = "done") =>
            call[p].ret =
                Return(IF call[p].race = "ok" /\ session \in Users
                       THEN session ELSE NULL)

\* getUser answered with the user of the session
C16_Witness ==
    /\ call[Main].op = "getCurrentUserId"
    /\ call[Main].pc = "done"
    /\ call[Main].race = "ok"
    /\ call[Main].ret = Return("U1")

\* C20: a call of getOrCreateAnonymousProfile that found an id in the cache
\* leaves that id in the cache unless the remote store reported it as not
\* found.
C20_EvictedOnlyWhenNotFound ==
    \A p \in Procs :
        ( /\ call[p].op \in {"getOrCreateAnonymousProfile", "getUserQueryFilter"}
          /\ call[p].cacheAtStart \in Ids
          /\ call[p].cacheAtStart \notin notFound ) =>
            cache = call[p].cacheAtStart

\* both callers have returned from calls that found the cache empty
BothReturned ==
    \A p \in Procs : call[p].pc = "done" /\ call[p].cacheAtStart = NULL

C17_LevelTable ==
    (logger.loaded /\ logger.last.level # "none"
        /\ logger.last.configured \in LevelNames) =>
        (logger.last.shown <=>
            LOG_LEVELS[logger.last.level] <= LOG_LEVELS[logger.last.configured])

\* C18: with developmentMode off, a request whose URL contains a protected
\* endpoint is forwarded to the original fetch only for an authenticated
\* user; for an unauthenticated caller it is rejected with 'Authentication
\* required for this endpoint'.
C18_ProtectedNeedsAuthentication ==
    ( /\ fetcher.loaded
      /\ fetcher.last.outcome # "none"
      /\ ~fetcher.last.developmentMode
      /\ isProtectedEndpoint(fetcher.last.url) ) =>
        /\ fetcher.last.outcome = "forwarded" => isUserAuthenticated(fetcher.last.user)
        /\ ~isUserAuthenticated(fetcher.last.user) =>
              fetcher.last.outcome = AuthenticationRequired

\* C19: the usage of the invitation code is incremented exactly once in a
\* registration that is reported successful, and never in one that the
\* validation rejected or whose sign-up failed.
C19_UsageCountedOncePerSuccess ==
    registration.loaded =>
        /\ registration.shown = "success" => registration.increments = 1
        /\ registration.shown \in {"Passwords do not match",
                                   "Password must be at least 8 characters long",
                                   "Failed to complete registration"} =>
              registration.increments = 0

\* the create requests of a call that reached the structured transport,
\* through the enhanced wrapper or directly, in order
StructuredAttempts(c) ==
    SelectSeq(c.attempts, LAMBDA st : st \in {"enh_a", "enh_b", "enh_c",
                                              "dir_a", "dir_b", "dir_c"})

ShapeOf(st) ==
    IF st \in {"enh_a", "dir_a", "rest_a"} THEN "a"
    ELSE IF st \in {"enh_b", "dir_b", "rest_b"} THEN "b"
    ELSE "c"

NoRepeat(seq) ==
    \A i \in 1..Len(seq) : \A j \in 1..Len(seq) : seq[i] = seq[j] => i = j

C24_LoserIgnored ==
    /\ [][\A p \in Procs :
            (call[p].late = "none" /\ call'[p].late # "none") =>
                /\ call'[p].ret = call[p].ret
                /\ call'[p].emitted = call[p].emitted
                /\ authTimeoutLogged' = authTimeoutLogged
                /\ diagCount' = diagCount
                /\ cache' = cache]_vars
    /\ [](\A p \in Procs :
            (call[p].race = "timer" /\ call[p].late # "none") =>
                /\ call[p].pc = "done"
                /\ call[p].ret = Return(NULL))

\* the timer won although a session exists, getUser answered with the user
\* afterwards, and the call has returned null without any report
C24_Witness ==
    /\ call[Main].race = "timer"
    /\ call[Main].late = "ok"
    /\ session = "U1"
    /\ call[Main].ret = Return(NULL)
    /\ ~authTimeoutLogged

\* C25: whatever limit and offset are, the row window applyPagination puts
\* on the query (limit and range together) asks for at most 1000 rows, for
\* no negative number of rows, and starts at an offset >= 0.
C25_WindowWithinBounds ==
    (pager.loaded /\ pager.called /\ pager.query.limited) =>
        /\ pager.query.count <= MaxRecords
        /\ pager.query.count >= 0
        /\ pager.query.from >= 0

\* C26: the identity fields of a payload never come from the caller.  The
\* payload createInsertPayload returns has user_id and anon_profile_id as
\* identity resolution gave them (the user id or null; null with requireAuth
\* and undefined without), the same as for any other data object that
\* differs only in its own user_id / anon_profile_id, and every other field
\* of data is carried over unchanged.
C26_IdentityFieldsNotFromCaller ==
    \A p \in Procs :
        ( /\ call[p].op = "createInsertPayload"
          /\ call[p].pc = "done"
          /\ call[p].ret.kind = "return" ) =>
            LET payload == call[p].ret.obj
                data == call[p].data
            IN  /\ DOMAIN payload = (DOMAIN data) \cup IdentityFields
                /\ payload["user_id"] = call[p].uid
                /\ payload["anon_profile_id"] = IF call[p].flag THEN NULL ELSE UNDEF
                /\ \A k \in (DOMAIN data) \ IdentityFields : payload[k] = data[k]
                /\ \A other \in DataInputs :
                      (\A k \in ((DOMAIN data) \cup (DOMAIN other)) \ IdentityFields :
                            Get(data, k) = Get(other, k)) =>
                          LET twin == createInsertPayload(other, call[p].flag, call[p].uid)
                          IN  /\ twin.kind = "return"
                              /\ twin.obj["user_id"] = payload["user_id"]
                              /\ twin.obj["anon_profile_id"] = payload["anon_profile_id"]

\* the caller supplied user_id U9 and anon_profile_id A9 of its own; the
\* payload carries the signed-in user and no guest id
C26_Witness ==
    /\ call[Main].op = "createInsertPayload"
    /\ call[Main].pc = "done"
    /\ call[Main].ret.kind = "return"
    /\ Get(call[Main].data, "user_id") = "U9"
    /\ call[Main].ret.obj["user_id"] = "U1"
    /\ call[Main].ret.obj["foo"] = "1"

\* C27: starting from an empty cache, the cache of the guest id is always
\* empty or holds the id of a row the remote store has created, and every
\* step that writes it writes the id a create request was answered with in
\* that very step (the row is new and the answer carried its id); a step
\* that does not do so can only empty the cache.
C27_CacheHoldsCreatedIdsOnly ==
    /\ [][cache' # cache =>
            \/ cache' = NULL
            \/ \E p \in Procs :
                  /\ call[p].pc \in {"enh_a", "enh_b", "enh_c", "dir_a", "dir_b",
                                     "dir_c", "rest_a", "rest_b", "rest_c"}
                  /\ call'[p].lastAns = "id"
                  /\ cache' \in profiles' \ profiles
                  /\ call'[p].gocRet = cache']_vars
    /\ [](cache \in {NULL} \cup {IdOf(n) : n \in 1..nextId})

\* the second row the store created is the one cached: the first was made
\* by an answer that carried no id
C27_Witness ==
    /\ cache = IdOf(2)
    /\ call[Main].lastAns = "id"
    /\ call[Main].gocRet = cache
    /\ Cardinality(call[Main].created) = 2

\* C28: once setupEnhancedEmailInvitationHandler has installed its handler,
\* a login event handed to every entry of listeners.login runs each handler
\* that was registered before exactly once, also when one of them throws.
C28_OriginalHandlersOnce ==
    (invitation.loaded /\ invitation.installed /\ invitation.dispatched) =>
        \A i \in 1..Len(invitation.originalLoginHandlers) :
            invitation.invoked[invitation.originalLoginHandlers[i]] = 1

\* C29: checkAndCreateUserProfile inserts at most one user_profiles row for
\* a user, whatever the interleaving of the calls and whatever the
\* existence check answers: the user never has more than one row.
C29_OneProfilePerUser ==
    invitation.loaded => invitation.rows <= 1

\* C30: a callback registered with the sign-in modal through open(cb) or
\* on('login', cb) is called at most once; it is called only by a sign-in
\* that was answered with a user, and never once a close() has followed its
\* registration, also when a sign-in that was in flight at the close
\* succeeds afterwards.
C30_CallbackAtMostOnce ==
    /\ [](modal.loaded => \A r \in 1..MaxRegistrations : modal.invoked[r] <= 1)
    /\ [][modal.loaded =>
            \A r \in 1..MaxRegistrations :
                modal'.invoked[r] > modal.invoked[r] =>
                    /\ r \notin modal.closed
                    /\ modal'.lastAns = "user"
                    /\ modal'.inFlight < modal.inFlight]_vars

\* a sign-in was in flight when the modal was closed (a second one has been
\* submitted since and is still in flight); it has now succeeded and the
\* callback the close followed was not called
C30_Witness ==
    /\ modal.loaded
    /\ modal.registered = 1
    /\ 1 \in modal.closed
    /\ modal.invoked[1] = 0
    /\ modal.lastAns = "user"
    /\ modal.inFlight = 1

====
